---- MODULE Spec2Model ----
(***************************************************************************)
(* Model of the looker frame worker (app/packages/looker/src/worker.ts):   *)
(* the process-wide stream / streamId globals, the chunked frame source    *)
(* built by createReader on a ReadableStream with a CountQueuingStrategy,  *)
(* the message handlers setStream, requestFrameChunk, processSample and    *)
(* requestSourceSample, and the label normalization of handleLabels and    *)
(* handleSample.                                                           *)
(*                                                                         *)
(* One action is one task of the worker's event loop: the handling of one  *)
(* inbound message, or the settling of one fetch, together with every      *)
(* promise reaction (microtask) it triggers.                               *)
(***************************************************************************)
EXTENDS Naturals, Sequences, FiniteSets

(* ------------------------------ constants ------------------------------ *)

\* worker.ts:11
HIGH_WATER_MARK == 6

\* worker.ts:5 imports CHUNK_SIZE from ./constants; the model runs it scaled down.
CHUNK_SIZE == 2

(* -------------------------------- bounds ------------------------------- *)

\* requestFrameChunk messages handled in one run
MaxRequests == 3

\* the largest total frame count a setStream message carries
MaxFrameCount == 13

\* messages with an unrecognized method tag handled in one run
MaxUnknown == 1

\* processSample and requestSourceSample messages handled in one run
MaxSamples == 1

\* the longest list a list-kind label holds
MaxList == 2

\* the most per-frame records a sample holds
MaxFrames == 2

\* the session ids the host hands out, each to one setStream
UUIDS == {"A", "B"}

FrameCounts == {1, 5, MaxFrameCount}

StartFrames == {0, 1}

\* streamId / stream before the first setStream (null)
NoId == "null"

VARIABLES
    sources,    \* every FrameStream createReader has built, in creation order
    stream,     \* the global stream: an index into sources, 0 for null
    streamId,   \* the global streamId
    posted,     \* the messages handed to postMessage, in order
    nReq,       \* requestFrameChunk messages handled so far
    remoteBatch,\* the most frames the remote returns in one response
    unknown,    \* messages with an unrecognized method tag handled so far
    thrown,     \* errors thrown by onmessage or by a promise reaction, uncaught
    remoteSample, \* the sample the host and the remote hold
    nSamples,   \* processSample messages handled so far
    nFetched,   \* requestSourceSample messages handled so far
    pending     \* uuids of the requestSourceSample fetches outstanding

vars == <<sources, stream, streamId, posted, nReq, remoteBatch, unknown, thrown,
          remoteSample, nSamples, nFetched, pending>>

\* what the stream handlers and the fetch callbacks never touch
aux == <<unknown, thrown, remoteSample, nSamples, nFetched, pending>>

Min(a, b) == IF a < b THEN a ELSE b

(* ------------------------- the chunked frame source -------------------- *)

\* createReader: the closure variables (frameNumber, frameCount, cancelled),
\* the ReadableStream's controller slots (state, queue, readRequests, started,
\* pulling, pullAgain, closeRequested) and the fetches it has outstanding.
\* uuid, start, reads and issued are history: the session id the source was
\* made for, its first cursor, the reads asked of its reader and the fetches
\* it has issued.
NewSource(uuid, frameNumber, frameCount) ==
    [ uuid           |-> uuid,
      start          |-> frameNumber,
      frameNumber    |-> frameNumber,
      frameCount     |-> frameCount,
      cancelled      |-> FALSE,
      state          |-> "readable",
      queue          |-> << >>,
      readRequests   |-> << >>,
      started        |-> FALSE,
      pulling        |-> FALSE,
      pullAgain      |-> FALSE,
      closeRequested |-> FALSE,
      inflight       |-> << >>,
      reads          |-> 0,
      issued         |-> 0 ]

\* ReadableStreamDefaultControllerCanCloseOrEnqueue
CanCloseOrEnqueue(s) == ~s.closeRequested /\ s.state = "readable"

\* ShouldCallPull that never looks at the queue's size
ShouldCallPullNoMark(s) == CanCloseOrEnqueue(s) /\ s.started

\* ShouldCallPull that lets the queue grow one past the mark
ShouldCallPullPastMark(s) ==
    /\ CanCloseOrEnqueue(s)
    /\ s.started
    /\ \/ Len(s.readRequests) > 0
       \/ HIGH_WATER_MARK >= Len(s.queue)

\* ReadableStreamDefaultControllerShouldCallPull under
\* CountQueuingStrategy({ highWaterMark: HIGH_WATER_MARK })
ShouldCallPull(s) ==
    /\ CanCloseOrEnqueue(s)
    /\ s.started
    /\ \/ Len(s.readRequests) > 0
       \/ HIGH_WATER_MARK > Len(s.queue)

\* the reaction to the pull promise's rejection:
\* ReadableStreamDefaultControllerError resets the queue and rejects every
\* pending read; read().then(getSendChunk) has no rejection handler.
PullRejected(s) ==
    IF s.state # "readable" THEN s
    ELSE [s EXCEPT !.state = "errored", !.queue = << >>, !.readRequests = << >>]

\* controller.close(): with an empty queue the stream closes and every pending
\* read resolves { done: true }, for which getSendChunk posts nothing. On a
\* stream that cannot close it throws inside pull, which rejects the pull.
Close(s) ==
    IF ~CanCloseOrEnqueue(s) THEN PullRejected(s)
    ELSE IF s.queue = << >>
         THEN [s EXCEPT !.closeRequested = TRUE, !.state = "closed",
                        !.readRequests = << >>]
         ELSE [s EXCEPT !.closeRequested = TRUE]

\* Pull that still fetches when the cursor is on frameCount
PullPastEnd(s) ==
    IF s.frameNumber > s.frameCount \/ s.cancelled
    THEN Close(s)
    ELSE [s EXCEPT !.inflight = Append(@, s.frameNumber), !.issued = @ + 1]

\* Pull without the test of the cursor against frameCount
PullNoEndTest(s) ==
    IF s.cancelled
    THEN Close(s)
    ELSE [s EXCEPT !.inflight = Append(@, s.frameNumber), !.issued = @ + 1]

\* Pull without the cancelled test
PullIgnoringCancel(s) ==
    IF s.frameNumber >= s.frameCount
    THEN Close(s)
    ELSE [s EXCEPT !.inflight = Append(@, s.frameNumber), !.issued = @ + 1]

\* the pull callback: close at the end or after cancel, else one fetch for the
\* chunk at the cursor
Pull(s) ==
    IF s.frameNumber >= s.frameCount \/ s.cancelled
    THEN Close(s)
    ELSE [s EXCEPT !.inflight = Append(@, s.frameNumber), !.issued = @ + 1]

RECURSIVE CallPullIfNeeded(_)
RECURSIVE PullFulfilled(_)

\* CallPullIfNeeded for a pull callback that starts its fetch and returns at
\* once, without the promise that settles with the fetch
CallPullNotAwaited(s) ==
    IF ~ShouldCallPull(s) THEN s
    ELSE IF s.pulling THEN [s EXCEPT !.pullAgain = TRUE]
    ELSE PullFulfilled(Pull([s EXCEPT !.pulling = TRUE]))

\* ReadableStreamDefaultControllerCallPullIfNeeded: one pull at a time; a pull
\* wanted while one is running is remembered in pullAgain.
CallPullIfNeeded(s) ==
    IF ~ShouldCallPull(s) THEN s
    ELSE IF s.pulling THEN [s EXCEPT !.pullAgain = TRUE]
    ELSE LET p == Pull([s EXCEPT !.pulling = TRUE])
         IN  IF Len(p.inflight) > Len(s.inflight) THEN p ELSE PullFulfilled(p)

\* the reaction to the pull promise's fulfilment
PullFulfilled(s) ==
    IF s.pullAgain
    THEN CallPullIfNeeded([s EXCEPT !.pulling = FALSE, !.pullAgain = FALSE])
    ELSE [s EXCEPT !.pulling = FALSE]

\* the start promise's fulfilment, one microtask after construction
Started(s) == CallPullIfNeeded([s EXCEPT !.started = TRUE])

(* ---------------------------- label records --------------------------- *)

\* an object without the key
Absent == "absent"

\* the value of a key that holds undefined
Undefined == "undefined"

\* A mask: form is "none" (no mask key), "text" (a string, as the remote
\* serializes it) or "native" (a typed array over a buffer); key names the
\* buffer behind it, ok tells whether the text is one deserialize accepts.
NoMask == [form |-> "none", key |-> 0, ok |-> TRUE]

MkMask(form, key) ==
    IF form = "none" THEN NoMask
    ELSE [form |-> IF form = "bad" THEN "text" ELSE form,
          key  |-> key,
          ok   |-> form # "bad"]

\* deserialize of ./numpy: the typed array over a fresh buffer for the text it
\* accepts, an error for the text it does not.
Deserialize(mask) ==
    [value |-> [mask EXCEPT !.form = "native"], threw |-> ~mask.ok]

\* the label kinds of ./constants: LABELS, and LABEL_LISTS whose labels hold
\* their sub-labels in a list (label.list stands for label[LABEL_LISTS[_cls]])
LABELS == {"Classification", "Detection", "Detections", "Segmentation"}

LABEL_LISTS == {"Detections"}

\* the keys of DESERIALIZE
DESERIALIZE_KINDS == {"Detection", "Detections", "Segmentation"}

\* a field that holds null: handleLabels skips it
NullLabel ==
    [_cls |-> "null", _id |-> Absent, id |-> Absent, mask |-> NoMask, list |-> << >>]

\* The member of a one-element set. In The({e(r) : r \in {x}}) the value of
\* x is computed once and r stands for it in e.
The(S) == CHOOSE y \in S : TRUE

\* a decoder that also reports the buffers of masks that arrived native
DeserializeMaskAll(label, buffers) ==
    IF label.mask.form = "text"
    THEN IF Deserialize(label.mask).threw
         THEN [label |-> label, buffers |-> buffers, threw |-> TRUE]
         ELSE [label   |-> [label EXCEPT !.mask = Deserialize(@).value],
               buffers |-> Append(buffers, Deserialize(label.mask).value.key),
               threw   |-> FALSE]
    ELSE [label   |-> label,
          buffers |-> IF label.mask.form = "native"
                      THEN Append(buffers, label.mask.key) ELSE buffers,
          threw   |-> FALSE]

\* DESERIALIZE.Detection, DESERIALIZE.Segmentation and the body of the loop of
\* DESERIALIZE.Detections: a mask that is a string is replaced by what
\* deserialize returns, and its buffer is pushed.
DeserializeMask(label, buffers) ==
    IF label.mask.form = "text"
    THEN IF Deserialize(label.mask).threw
         THEN [label |-> label, buffers |-> buffers, threw |-> TRUE]
         ELSE [label   |-> [label EXCEPT !.mask = Deserialize(@).value],
               buffers |-> Append(buffers, Deserialize(label.mask).value.key),
               threw   |-> FALSE]
    ELSE [label |-> label, buffers |-> buffers, threw |-> FALSE]

\* one turn of labels.detections.forEach(...), on element k of st.list
DeserializeAt(st, k) ==
    The({IF m.threw
         THEN [st EXCEPT !.threw = TRUE]
         ELSE [list    |-> [st.list EXCEPT ![k] = m.label],
               buffers |-> m.buffers,
               threw   |-> FALSE] :
         m \in {DeserializeMask(st.list[k], st.buffers)}})

\* labels.detections.forEach(...) from element k on: the elements in order, up
\* to the first one whose mask deserialize rejects
RECURSIVE DeserializeList(_, _)
DeserializeList(st, k) ==
    IF st.threw \/ k > Len(st.list)
    THEN st
    ELSE The({DeserializeList(n, k + 1) : n \in {DeserializeAt(st, k)}})

\* DESERIALIZE[label._cls](label, buffers)
DESERIALIZE(label, buffers) ==
    IF label._cls = "Detections"
    THEN The({[label   |-> [label EXCEPT !.list = r.list],
               buffers |-> r.buffers,
               threw   |-> r.threw] :
              r \in {DeserializeList([list    |-> label.list,
                                      buffers |-> buffers,
                                      threw   |-> FALSE], 1)}})
    ELSE DeserializeMask(label, buffers)

\* a rewrite that leaves the _id key behind
MapIdKeepInternal(obj) ==
    [obj EXCEPT !.id = IF obj._id = Absent THEN Undefined ELSE obj._id]

\* mapId: obj.id = obj._id (undefined when the key is missing); delete obj._id
MapId(obj) ==
    [obj EXCEPT !.id = IF obj._id = Absent THEN Undefined ELSE obj._id,
                !._id = Absent]

\* the body of handleLabels's loop for one field: a falsy value is skipped; a
\* kind in DESERIALIZE is decoded; a kind in LABELS has mapId applied to the
\* elements of its list (list kinds) or to the label itself (the others).
HandleLabel(label, buffers) ==
    IF label._cls = "null"
    THEN [label |-> label, buffers |-> buffers, threw |-> FALSE]
    ELSE The({IF d.threw \/ d.label._cls \notin LABELS
              THEN d
              ELSE IF d.label._cls \in LABEL_LISTS
              THEN [d EXCEPT !.label.list =
                       [k \in DOMAIN d.label.list |-> MapId(d.label.list[k])]]
              ELSE [d EXCEPT !.label = MapId(d.label)] :
              d \in {IF label._cls \in DESERIALIZE_KINDS
                     THEN DESERIALIZE(label, buffers)
                     ELSE [label |-> label, buffers |-> buffers, threw |-> FALSE]}})

\* handleLabels(sample): of the keys of a sample or of a frame, field is the
\* one that holds a label; the loop leaves every other key as it is.
HandleLabels(rec) ==
    The({[rec     |-> [rec EXCEPT !.field = r.label],
          buffers |-> r.buffers,
          threw   |-> r.threw] :
         r \in {HandleLabel(rec.field, << >>)}})

\* handleLabels on frame k of st.frames, its buffers appended to st.buffers
HandleFrameAt(st, k) ==
    The({IF r.threw
         THEN [st EXCEPT !.threw = TRUE]
         ELSE [frames  |-> [st.frames EXCEPT ![k] = r.rec],
               buffers |-> st.buffers \o r.buffers,
               threw   |-> FALSE] :
         r \in {HandleLabels(st.frames[k])}})

\* frames.map((frame) => handleLabels(frame)).flat() and the forEach of
\* getSendChunk, from frame k on: the frames in order, up to the first error
RECURSIVE HandleFrames(_, _)
HandleFrames(st, k) ==
    IF st.threw \/ k > Len(st.frames)
    THEN st
    ELSE The({HandleFrames(n, k + 1) : n \in {HandleFrameAt(st, k)}})

\* handleSample that leaves the per-frame records alone
HandleSampleNoFrames(sample) ==
    The({IF top.threw
         THEN [sample |-> sample, buffers |-> << >>, threw |-> TRUE]
         ELSE [sample  |-> MapId(top.rec),
               buffers |-> top.buffers,
               threw   |-> FALSE] :
         top \in {HandleLabels(sample)}})

\* the second half of handleSample: the frames, then mapId on the sample
HandleSampleFrames(top) ==
    The({IF fr.threw
         THEN [sample |-> top.rec, buffers |-> << >>, threw |-> TRUE]
         ELSE [sample  |-> MapId([top.rec EXCEPT !.frames = fr.frames]),
               buffers |-> fr.buffers,
               threw   |-> FALSE] :
         fr \in {HandleFrames([frames  |-> top.rec.frames,
                               buffers |-> top.buffers,
                               threw   |-> FALSE], 1)}})

\* handleSample: the labels of the sample, then those of every frame, then
\* mapId on the sample itself; an error of deserialize leaves it at once.
HandleSample(sample) ==
    The({IF top.threw
         THEN [sample |-> top.rec, buffers |-> << >>, threw |-> TRUE]
         ELSE HandleSampleFrames(top) :
         top \in {HandleLabels(sample)}})

(* ------------------------------ the reader ----------------------------- *)

\* getSendChunk that posts the chunk whether or not its labels were decoded
GetSendChunkUnchecked(uuid, value) ==
    IF value # << >>
    THEN The({<< [method  |-> "frameChunk",
                  frames  |-> r.frames,
                  range   |-> c.range,
                  uuid    |-> uuid,
                  buffers |-> r.buffers] >> :
              c \in {value[1]},
              r \in {HandleFrames([frames  |-> value[1].frames,
                                   buffers |-> << >>,
                                   threw   |-> FALSE], 1)}})
    ELSE << >>

\* getSendChunk(uuid): a frameChunk message for a read that resolved with a
\* value, nothing for one that resolved { done: true }. value is << >> for
\* undefined and <<chunk>> for a chunk. The labels of the chunk's frames are
\* normalized first; an error of deserialize leaves the callback before
\* postMessage.
GetSendChunk(uuid, value) ==
    IF value # << >>
    THEN The({IF r.threw
              THEN << >>
              ELSE << [method  |-> "frameChunk",
                       frames  |-> r.frames,
                       range   |-> c.range,
                       uuid    |-> uuid,
                       buffers |-> r.buffers] >> :
              c \in {value[1]},
              r \in {HandleFrames([frames  |-> value[1].frames,
                                   buffers |-> << >>,
                                   threw   |-> FALSE], 1)}})
    ELSE << >>

\* stream.reader.read().then(getSendChunk(uuid)): a closed stream answers
\* { done: true }, an errored one rejects, a readable one hands out the head of
\* its queue or parks the read; both readable cases then ask for a pull.
Read(s, uuid) ==
    LET t == [s EXCEPT !.reads = @ + 1]
    IN  IF t.state # "readable"
        THEN [src |-> t, out |-> GetSendChunk(uuid, << >>)]
        ELSE IF t.queue # << >>
        THEN LET d == [t EXCEPT !.queue = Tail(@)]
             IN  [src |-> IF d.closeRequested /\ d.queue = << >>
                          THEN [d EXCEPT !.state = "closed"]
                          ELSE CallPullIfNeeded(d),
                  out |-> GetSendChunk(uuid, <<Head(t.queue)>>)]
        ELSE [src |-> CallPullIfNeeded([t EXCEPT !.readRequests = Append(@, uuid)]),
              out |-> << >>]

\* enqueue that buffers the chunk even when a read is waiting for it
EnqueueNoHandOff(s, chunk) ==
    IF ~CanCloseOrEnqueue(s)
    THEN [src |-> s, out |-> << >>, threw |-> TRUE]
    ELSE [src   |-> CallPullIfNeeded([s EXCEPT !.queue = Append(@, chunk)]),
          out   |-> << >>,
          threw |-> FALSE]

\* enqueue that answers the oldest pending read and leaves it pending
EnqueueKeepRead(s, chunk) ==
    IF ~CanCloseOrEnqueue(s)
    THEN [src |-> s, out |-> << >>, threw |-> TRUE]
    ELSE IF s.readRequests # << >>
    THEN [src   |-> CallPullIfNeeded(s),
          out   |-> GetSendChunk(Head(s.readRequests), <<chunk>>),
          threw |-> FALSE]
    ELSE [src   |-> CallPullIfNeeded([s EXCEPT !.queue = Append(@, chunk)]),
          out   |-> << >>,
          threw |-> FALSE]

\* controller.enqueue(chunk): throws on a stream that is closing or no longer
\* readable; else the chunk goes to the oldest pending read, or into the
\* queue when no read is pending; then a pull is asked for.
Enqueue(s, chunk) ==
    IF ~CanCloseOrEnqueue(s)
    THEN [src |-> s, out |-> << >>, threw |-> TRUE]
    ELSE IF s.readRequests # << >>
    THEN [src   |-> CallPullIfNeeded([s EXCEPT !.readRequests = Tail(@)]),
          out   |-> GetSendChunk(Head(s.readRequests), <<chunk>>),
          threw |-> FALSE]
    ELSE [src   |-> CallPullIfNeeded([s EXCEPT !.queue = Append(@, chunk)]),
          out   |-> << >>,
          threw |-> FALSE]

\* OnResponse with the cursor left on the last frame of the range
OnResponseCursorOnEnd(s, chunk) ==
    LET r == Enqueue(s, chunk)
    IN  IF r.threw
        THEN [src |-> PullRejected(r.src), out |-> << >>]
        ELSE [src |-> PullFulfilled([r.src EXCEPT !.frameNumber = chunk.range[2]]),
              out |-> r.out]

\* OnResponse that leaves the cursor where it was
OnResponseKeepCursor(s, chunk) ==
    LET r == Enqueue(s, chunk)
    IN  IF r.threw
        THEN [src |-> PullRejected(r.src), out |-> << >>]
        ELSE [src |-> PullFulfilled(r.src), out |-> r.out]

\* the fetch's fulfilment: enqueue, move the cursor past the range, resolve the
\* pull promise; an exception from enqueue goes to .catch and rejects it.
OnResponse(s, chunk) ==
    LET r == Enqueue(s, chunk)
    IN  IF r.threw
        THEN [src |-> PullRejected(r.src), out |-> << >>]
        ELSE [src |-> PullFulfilled([r.src EXCEPT !.frameNumber = chunk.range[2] + 1]),
              out |-> r.out]

\* a .catch that fetches the same chunk again
OnErrorRetry(s) ==
    [s EXCEPT !.inflight = Append(@, s.frameNumber), !.issued = @ + 1]

\* the fetch's rejection: .catch rejects the pull promise
OnError(s) == PullRejected(s)

(* ------------------------------- the remote ---------------------------- *)

\* The range the remote answers for frameNumber n, numFrames c, frameCount f
\* when it returns every frame asked for.
FullEnd(n, c, f) == Min(n + c - 1, f - 1)

\* The range end the remote answers with: its range starts at n and holds the
\* frames asked for, or the first remoteBatch of them when it returns fewer.
RemoteEnds(n, c, f) == {FullEnd(n, Min(c, remoteBatch), f)}

\* the record of one frame without labels
PlainFrame == [field |-> NullLabel]

\* the frames the remote sends for the range [n, e]: the per-frame records of
\* the sample it holds, label-free records past them
RemoteFrames(n, e) ==
    [j \in 1..(e + 1 - n) |->
        IF n + j \in DOMAIN remoteSample.frames
        THEN remoteSample.frames[n + j]
        ELSE PlainFrame]

(* ------------------------------- samples ------------------------------- *)

MkLabel(cls, ids, mask, list) ==
    [_cls |-> cls, _id |-> ids[1], id |-> ids[2], mask |-> mask, list |-> list]

MkSample(ids, label, frames) ==
    [_id |-> ids[1], id |-> ids[2], field |-> label, frames |-> frames]

\* <<_id, id>> as the remote sends them, as an earlier normalization left
\* them, and on an object that has neither
FromRemote == <<"x", Absent>>
Normalized == <<Absent, "y">>
NoIds == <<Absent, Absent>>

MaskForms == {"none", "text", "bad", "native"}

\* the lists of a Detections label; the mask of element k is held in buffer k
Lists ==
    UNION {{[k \in 1..n |-> MkLabel("Detection", c[k][1], MkMask(c[k][2], k), << >>)] :
               c \in [1..n -> {FromRemote, Normalized} \X MaskForms]} :
           n \in 0..MaxList}

\* the values of a sample's label field; the mask of a single label is held
\* in buffer 1
TopLabels ==
    {NullLabel}
    \cup {MkLabel(c, i, MkMask(f, 1), << >>) :
             c \in {"Detection", "Segmentation"},
             i \in {FromRemote, Normalized, NoIds}, f \in MaskForms}
    \cup {MkLabel(c, i, NoMask, << >>) :
             c \in {"Classification", "Other"}, i \in {FromRemote, Normalized, NoIds}}
    \cup {MkLabel("Detections", i, NoMask, l) : i \in {FromRemote, NoIds}, l \in Lists}

\* the per-frame records of a sample; the mask of frame j is held in buffer
\* MaxList + j
FrameShapes ==
    {<<"null", NoIds, "none">>,
     <<"Detection", FromRemote, "text">>,
     <<"Detection", Normalized, "native">>,
     <<"Segmentation", FromRemote, "bad">>}

FrameLabel(shape, j) ==
    IF shape[1] = "null" THEN NullLabel
    ELSE MkLabel(shape[1], shape[2], MkMask(shape[3], MaxList + j), << >>)

Frames ==
    UNION {{[j \in 1..n |-> [field |-> FrameLabel(c[j], j)]] : c \in [1..n -> FrameShapes]} :
           n \in 1..MaxFrames}

\* the samples the host and the remote may hold: an image sample with any
\* label, or a video sample with per-frame records
Samples ==
    {MkSample(i, l, << >>) : i \in {FromRemote, Normalized}, l \in TopLabels}
    \cup {MkSample(i, l, fr) :
             i \in {FromRemote, Normalized},
             l \in {NullLabel,
                    MkLabel("Detection", FromRemote, MkMask("text", 1), << >>),
                    MkLabel("Segmentation", Normalized, MkMask("native", 1), << >>)},
             fr \in Frames}

\* a sample without labels
PlainSample == MkSample(FromRemote, NullLabel, << >>)

(* ------------------------------- messages ------------------------------ *)

RemoveAt(q, k) == [j \in 1..(Len(q) - 1) |-> IF j < k THEN q[j] ELSE q[j + 1]]

\* cancel that leaves the flag alone
CancelNoFlag(s) == s

\* stream.cancel(): cancelled = true in the closure of the current source
Cancel(s) == [s EXCEPT !.cancelled = TRUE]

Init ==
    /\ sources = << >>
    /\ stream = 0
    /\ streamId = NoId
    /\ posted = << >>
    /\ nReq = 0
    /\ remoteBatch \in 1..CHUNK_SIZE
    /\ unknown = 0
    /\ thrown = 0
    /\ remoteSample = PlainSample
    /\ nSamples = 0
    /\ nFetched = 0
    /\ pending = << >>

\* setStream without the first read
SetStreamNoRead(uuid, frameNumber, frameCount) ==
    /\ uuid \notin {sources[j].uuid : j \in DOMAIN sources}
    /\ LET old == IF stream # 0
                  THEN [sources EXCEPT ![stream] = Cancel(@)]
                  ELSE sources
           new == Len(sources) + 1
       IN  /\ sources' = Append(old, Started(NewSource(uuid, frameNumber, frameCount)))
           /\ stream' = new
           /\ streamId' = uuid
           /\ posted' = posted
    /\ UNCHANGED <<nReq, remoteBatch>>
    /\ UNCHANGED aux

\* setStream: cancel the current source, take the new session id, build the
\* new source and read its first chunk; the stream starts (and pulls for the
\* parked read) in the microtasks of the same task. sampleId, source and url
\* only travel into the fetch's query string. The host gives every setStream
\* a session id of its own.
SetStream(uuid, frameNumber, frameCount) ==
    /\ uuid \notin {sources[j].uuid : j \in DOMAIN sources}
    /\ LET old == IF stream # 0
                  THEN [sources EXCEPT ![stream] = Cancel(@)]
                  ELSE sources
           r   == Read(NewSource(uuid, frameNumber, frameCount), uuid)
           new == Len(sources) + 1
       IN  /\ sources' = Append(old, Started(r.src))
           /\ stream' = new
           /\ streamId' = uuid
           /\ posted' = posted \o r.out
    /\ UNCHANGED <<nReq, remoteBatch>>
    /\ UNCHANGED aux

\* requestFrameChunk without the session id test
RequestFrameChunkAnyId(uuid) ==
    /\ uuid \in {sources[j].uuid : j \in DOMAIN sources}
    /\ nReq < MaxRequests
    /\ nReq' = nReq + 1
    /\ IF stream # 0
       THEN LET r == Read(sources[stream], uuid)
            IN  /\ sources' = [sources EXCEPT ![stream] = r.src]
                /\ posted' = posted \o r.out
       ELSE UNCHANGED <<sources, posted>>
    /\ UNCHANGED <<stream, streamId, remoteBatch>>
    /\ UNCHANGED aux

\* requestFrameChunk: a read on the current source when the uuid is the
\* current session id, nothing otherwise. The host asks for chunks of the
\* sessions it has started.
RequestFrameChunk(uuid) ==
    /\ uuid \in {sources[j].uuid : j \in DOMAIN sources}
    /\ nReq < MaxRequests
    /\ nReq' = nReq + 1
    /\ IF uuid = streamId /\ stream # 0
       THEN LET r == Read(sources[stream], uuid)
            IN  /\ sources' = [sources EXCEPT ![stream] = r.src]
                /\ posted' = posted \o r.out
       ELSE UNCHANGED <<sources, posted>>
    /\ UNCHANGED <<stream, streamId, remoteBatch>>
    /\ UNCHANGED aux

\* requestFrameChunk from a host that keeps asking for the active session: it
\* asks for the next chunk when the one it asked for before has arrived, until
\* it is told the end of the sequence.
PacedRequestFrameChunk(uuid) ==
    /\ stream # 0
    /\ uuid = streamId
    /\ sources[stream].state = "readable"
    /\ sources[stream].readRequests = << >>
    /\ nReq' = nReq + 1
    /\ LET r == Read(sources[stream], uuid)
       IN  /\ sources' = [sources EXCEPT ![stream] = r.src]
           /\ posted' = posted \o r.out
    /\ UNCHANGED <<stream, streamId, remoteBatch>>
    /\ UNCHANGED aux

\* a fetch of source i is answered with the range [n, e]
FetchResolve(i, k, e) ==
    /\ i \in DOMAIN sources
    /\ k \in DOMAIN sources[i].inflight
    /\ e \in RemoteEnds(sources[i].inflight[k], CHUNK_SIZE, sources[i].frameCount)
    /\ LET s == sources[i]
           n == s.inflight[k]
           r == OnResponse([s EXCEPT !.inflight = RemoveAt(@, k)],
                           [range |-> <<n, e>>, frames |-> RemoteFrames(n, e)])
       IN  /\ sources' = [sources EXCEPT ![i] = r.src]
           /\ posted' = posted \o r.out
    /\ UNCHANGED <<stream, streamId, nReq, remoteBatch>>
    /\ UNCHANGED aux

\* a fetch of source i fails
FetchFail(i, k) ==
    /\ i \in DOMAIN sources
    /\ k \in DOMAIN sources[i].inflight
    /\ sources' = [sources EXCEPT
                     ![i] = OnError([@ EXCEPT !.inflight = RemoveAt(@, k)])]
    /\ UNCHANGED <<stream, streamId, posted, nReq, remoteBatch>>
    /\ UNCHANGED aux

\* the method tags onmessage's switch has a case for
RecognizedMethods ==
    {"processSample", "requestFrameChunk", "setStream", "requestSourceSample"}

\* the method tags a message may carry
MethodTags == RecognizedMethods \cup {"frameChunk", "cancelStream"}

\* a default case that drops the message
OnMessageDefaultSilent(method) ==
    /\ method \notin RecognizedMethods
    /\ unknown < MaxUnknown
    /\ unknown' = unknown + 1
    /\ UNCHANGED <<sources, stream, streamId, posted, nReq, remoteBatch, thrown>>
    /\ UNCHANGED <<remoteSample, nSamples, nFetched, pending>>

\* onmessage's default case: throw new Error("unknown method")
OnMessageDefault(method) ==
    /\ method \notin RecognizedMethods
    /\ unknown < MaxUnknown
    /\ unknown' = unknown + 1
    /\ thrown' = thrown + 1
    /\ UNCHANGED <<sources, stream, streamId, posted, nReq, remoteBatch>>
    /\ UNCHANGED <<remoteSample, nSamples, nFetched, pending>>

\* processSample that posts the sample whatever handleSample did
ProcessSamplePartial(uuid) ==
    /\ nSamples + nFetched < MaxSamples
    /\ nSamples' = nSamples + 1
    /\ LET r == HandleSample(remoteSample)
       IN  /\ posted' = Append(posted, [method  |-> "processSample",
                                        sample  |-> r.sample,
                                        uuid    |-> uuid,
                                        buffers |-> r.buffers])
           /\ thrown' = thrown + (IF r.threw THEN 1 ELSE 0)
    /\ UNCHANGED <<sources, stream, streamId, nReq, remoteBatch>>
    /\ UNCHANGED <<unknown, remoteSample, nFetched, pending>>

\* processSample: normalize the sample and post it with the buffers of the
\* masks decoded; an error of deserialize leaves onmessage before postMessage.
ProcessSample(uuid) ==
    /\ nSamples + nFetched < MaxSamples
    /\ nSamples' = nSamples + 1
    /\ LET r == HandleSample(remoteSample)
       IN  IF r.threw
           THEN /\ thrown' = thrown + 1
                /\ posted' = posted
           ELSE /\ posted' = Append(posted, [method  |-> "processSample",
                                             sample  |-> r.sample,
                                             uuid    |-> uuid,
                                             buffers |-> r.buffers])
                /\ thrown' = thrown
    /\ UNCHANGED <<sources, stream, streamId, nReq, remoteBatch>>
    /\ UNCHANGED <<unknown, remoteSample, nFetched, pending>>

\* requestSourceSample: issue the fetch of the sample
RequestSourceSample(uuid) ==
    /\ nSamples + nFetched < MaxSamples
    /\ nFetched' = nFetched + 1
    /\ pending' = Append(pending, uuid)
    /\ UNCHANGED <<sources, stream, streamId, posted, nReq, remoteBatch>>
    /\ UNCHANGED <<unknown, thrown, remoteSample, nSamples>>

\* the response posted under the id of the session that is active by then
SourceSampleResponseSessionId(k) ==
    /\ k \in DOMAIN pending
    /\ pending' = RemoveAt(pending, k)
    /\ LET r == HandleSample(remoteSample)
       IN  IF r.threw
           THEN /\ thrown' = thrown + 1
                /\ posted' = posted
           ELSE /\ posted' = Append(posted, [method  |-> "sourceSample",
                                             sample  |-> r.sample,
                                             uuid    |-> streamId,
                                             buffers |-> r.buffers])
                /\ thrown' = thrown
    /\ UNCHANGED <<sources, stream, streamId, nReq, remoteBatch>>
    /\ UNCHANGED <<unknown, remoteSample, nSamples, nFetched>>

\* the fetch of requestSourceSample resolves: normalize the sample and post
\* it under the uuid of the request; an error of deserialize rejects the
\* promise chain, which nobody handles.
SourceSampleResponse(k) ==
    /\ k \in DOMAIN pending
    /\ pending' = RemoveAt(pending, k)
    /\ LET r == HandleSample(remoteSample)
       IN  IF r.threw
           THEN /\ thrown' = thrown + 1
                /\ posted' = posted
           ELSE /\ posted' = Append(posted, [method  |-> "sourceSample",
                                             sample  |-> r.sample,
                                             uuid    |-> pending[k],
                                             buffers |-> r.buffers])
                /\ thrown' = thrown
    /\ UNCHANGED <<sources, stream, streamId, nReq, remoteBatch>>
    /\ UNCHANGED <<unknown, remoteSample, nSamples, nFetched>>

\* the fetch of requestSourceSample fails: the promise chain rejects
SourceSampleFail(k) ==
    /\ k \in DOMAIN pending
    /\ pending' = RemoveAt(pending, k)
    /\ thrown' = thrown + 1
    /\ UNCHANGED <<sources, stream, streamId, posted, nReq, remoteBatch>>
    /\ UNCHANGED <<unknown, remoteSample, nSamples, nFetched>>

\* the remote answers one outstanding requestSourceSample fetch
SampleRespond == \E k \in DOMAIN pending : SourceSampleResponse(k)

\* one outstanding requestSourceSample fetch fails
SampleFail == \E k \in DOMAIN pending : SourceSampleFail(k)

\* the remote answers one outstanding fetch
Respond ==
    \E i \in DOMAIN sources : \E k \in DOMAIN sources[i].inflight :
       \E e \in RemoteEnds(sources[i].inflight[k], CHUNK_SIZE, sources[i].frameCount) :
          FetchResolve(i, k, e)

\* one outstanding fetch fails
Fail ==
    \E i \in DOMAIN sources : \E k \in DOMAIN sources[i].inflight : FetchFail(i, k)

Next ==
    \/ \E u \in UUIDS, n \in StartFrames, f \in FrameCounts : SetStream(u, n, f)
    \/ \E u \in UUIDS : RequestFrameChunk(u)
    \/ Respond
    \/ Fail

Spec == Init /\ [][Next]_vars

\* One session that is never superseded, with a remote that answers every
\* fetch, successfully and in the end: a fetch settles in a task of its own,
\* which the event loop runs once the response is there.
NextLive ==
    \/ \E u \in UUIDS, n \in StartFrames, f \in FrameCounts :
          stream = 0 /\ SetStream(u, n, f)
    \/ \E u \in UUIDS : RequestFrameChunk(u)
    \/ Respond

LiveSpec == Init /\ [][NextLive]_vars /\ WF_vars(Respond)

\* One session, with messages of any method tag arriving at any time.
NextDispatch ==
    \/ \E u \in UUIDS, n \in StartFrames, f \in FrameCounts :
          stream = 0 /\ SetStream(u, n, f)
    \/ \E u \in UUIDS : RequestFrameChunk(u)
    \/ Respond
    \/ Fail
    \/ \E m \in MethodTags : OnMessageDefault(m)

DispatchSpec == Init /\ [][NextDispatch]_vars

\* the host asks for the next chunk of the active session
HostRequest == \E u \in UUIDS : PacedRequestFrameChunk(u)

\* One session that is never superseded, a remote that answers every fetch
\* successfully and in the end, and a host that keeps asking.
NextTerm ==
    \/ \E u \in UUIDS, n \in StartFrames, f \in FrameCounts :
          stream = 0 /\ SetStream(u, n, f)
    \/ HostRequest
    \/ Respond

TermSpec ==
    Init /\ [][NextTerm]_vars /\ WF_vars(Respond) /\ WF_vars(HostRequest)

\* the remote answers one outstanding fetch of the active source
RespondActive ==
    /\ stream # 0
    /\ \E k \in DOMAIN sources[stream].inflight :
          \E e \in RemoteEnds(sources[stream].inflight[k], CHUNK_SIZE,
                              sources[stream].frameCount) :
             FetchResolve(stream, k, e)

\* Sessions over short videos with a remote that never fails, returns every
\* frame asked for and answers the fetches of the active source in the end; a
\* fetch of a superseded source may stay unanswered for ever.
NextStall ==
    \/ \E u \in UUIDS, f \in FrameCounts \ {MaxFrameCount} : SetStream(u, 0, f)
    \/ \E u \in UUIDS : RequestFrameChunk(u)
    \/ Respond

StallInit == Init /\ remoteBatch = CHUNK_SIZE

StallSpec == StallInit /\ [][NextStall]_vars /\ WF_vars(RespondActive)

\* The worker with a sample of any shape on the host and on the remote, which
\* returns every frame asked for.
SampleInit ==
    /\ sources = << >>
    /\ stream = 0
    /\ streamId = NoId
    /\ posted = << >>
    /\ nReq = 0
    /\ remoteBatch = CHUNK_SIZE
    /\ unknown = 0
    /\ thrown = 0
    /\ remoteSample \in Samples
    /\ nSamples = 0
    /\ nFetched = 0
    /\ pending = << >>

\* Samples decoded and fetched next to one stream over the sample's frames.
NextSample ==
    \/ \E u \in UUIDS : ProcessSample(u)
    \/ \E u \in UUIDS : RequestSourceSample(u)
    \/ SampleRespond
    \/ SampleFail
    \/ \E u \in UUIDS : stream = 0 /\ SetStream(u, 0, MaxFrames)
    \/ Respond

SampleSpec == SampleInit /\ [][NextSample]_vars

\* The worker with a video sample on the remote whose per-frame labels are of
\* any shape, masks deserialize rejects included.
DecodeInit ==
    /\ sources = << >>
    /\ stream = 0
    /\ streamId = NoId
    /\ posted = << >>
    /\ nReq = 0
    /\ remoteBatch \in 1..CHUNK_SIZE
    /\ unknown = 0
    /\ thrown = 0
    /\ remoteSample \in {MkSample(FromRemote, NullLabel, fr) : fr \in Frames}
    /\ nSamples = 0
    /\ nFetched = 0
    /\ pending = << >>

\* One stream over the frames of that sample and one frame past them.
NextDecode ==
    \/ \E u \in UUIDS, n \in StartFrames : stream = 0 /\ SetStream(u, n, MaxFrames + 1)
    \/ \E u \in UUIDS : RequestFrameChunk(u)
    \/ Respond

DecodeSpec == DecodeInit /\ [][NextDecode]_vars

\* a setStream from a host that starts a first session at any time and a
\* second one only while a requestSourceSample fetch is outstanding
SetStreamAside(uuid) ==
    /\ stream = 0 \/ (Len(sources) = 1 /\ pending # << >>)
    /\ SetStream(uuid, 0, MaxFrames)

\* Samples decoded and fetched while sessions are started and superseded.
NextAside ==
    \/ \E u \in UUIDS : ProcessSample(u)
    \/ \E u \in UUIDS : RequestSourceSample(u)
    \/ SampleRespond
    \/ SampleFail
    \/ \E u \in UUIDS : SetStreamAside(u)
    \/ Respond

AsideSpec == DecodeInit /\ [][NextAside]_vars

(* -------------------------------- claims ------------------------------- *)

\* the ranges of the frameChunk messages posted with session id u, in order
RangesOf(u) ==
    LET p == SelectSeq(posted, LAMBDA m : m.method = "frameChunk" /\ m.uuid = u)
    IN  [j \in DOMAIN p |-> p[j].range]

RECURSIVE SumReads(_)
SumReads(q) == IF q = << >> THEN 0 ELSE Head(q).reads + SumReads(Tail(q))

\* requestFrameChunk messages that led to no read: every source gets one read
\* from its setStream and one from each request it accepts
Ignored == (nReq + Len(sources)) - SumReads(sources)

C2_StaleRequestIgnored ==
    [][\A u \in UUIDS :
          (streamId # NoId /\ u # streamId /\ RequestFrameChunk(u))
              => UNCHANGED <<sources, stream, streamId, posted>>]_vars

\* C2 witness: with session B active after session A, a request was dropped.
C2_Witness ==
    /\ Len(sources) = 2
    /\ streamId = sources[2].uuid
    /\ sources[1].uuid # streamId
    /\ Ignored >= 1

\* C3 as claimed: every frameChunk message carries the session id that is
\* active at the moment it is posted (a superseded session's late response is
\* dropped).
C3_PostedForActiveSession ==
    [][\A j \in (Len(posted) + 1)..Len(posted') : posted'[j].uuid = streamId']_vars

\* C4: a cancelled source issues no new fetch: its count of issued fetches and
\* its outstanding fetches never grow once the flag is set.
C4_NoFetchAfterCancel ==
    [][\A i \in DOMAIN sources :
          sources[i].cancelled
              => /\ sources'[i].issued = sources[i].issued
                 /\ Len(sources'[i].inflight) <= Len(sources[i].inflight)]_vars

\* C4 witness: a cancelled source whose fetch, in flight when it was cancelled,
\* has been answered, and whose next pull closed the sequence short of the end.
C4_Witness ==
    \E i \in DOMAIN sources :
        /\ sources[i].cancelled
        /\ sources[i].closeRequested
        /\ sources[i].frameNumber > sources[i].start
        /\ sources[i].frameNumber < sources[i].frameCount
        /\ sources[i].inflight = << >>

\* C5: at most one source is live: the one the global stream refers to, made
\* by the latest setStream, whose session id is streamId; every earlier source
\* is cancelled and is never read from again.
C5_OneLiveSource ==
    /\ [](/\ Cardinality({i \in DOMAIN sources : ~sources[i].cancelled}) <= 1
          /\ stream = Len(sources)
          /\ \A i \in DOMAIN sources : sources[i].cancelled <=> i # stream
          /\ stream # 0 => streamId = sources[stream].uuid)
    /\ [][\A i \in DOMAIN sources :
             sources[i].cancelled => sources'[i].reads = sources[i].reads]_vars

\* C5 witness: two sources exist, the first cancelled with chunks still
\* buffered, and requests were accepted after the second was made.
C5_Witness ==
    /\ Len(sources) = 2
    /\ sources[1].cancelled
    /\ sources[1].queue # << >>
    /\ sources[2].reads >= 2

\* the number of chunks of size c that cover f frames: ceil(f / c)
NChunks(f, c) == (f + c - 1) \div c

\* the partition of [0, f-1] into chunks of size c
Partition(f, c) ==
    [j \in 1..NChunks(f, c) |-> <<(j - 1) * c, Min(j * c - 1, f - 1)>>]

\* C6: with a remote that returns every frame asked for, the chunks posted
\* for a source started at frame 0 are, in order, the first chunks of the
\* partition of [0, F-1] into ranges of CHUNK_SIZE frames; once the source has
\* reached the end and closed, all ceil(F / CHUNK_SIZE) of them were handed
\* out, and a further read gets end of sequence (no message).
C6_ChunkPartition ==
    \A i \in DOMAIN sources :
        LET s == sources[i]
            r == RangesOf(s.uuid)
            part == Partition(s.frameCount, CHUNK_SIZE)
        IN  (s.start = 0 /\ remoteBatch >= CHUNK_SIZE)
                => /\ Len(r) <= Len(part)
                   /\ \A j \in DOMAIN r : r[j] = part[j]
                   /\ (s.state = "closed" /\ s.frameNumber >= s.frameCount)
                          => /\ Len(r) = NChunks(s.frameCount, CHUNK_SIZE)
                             /\ Read(s, s.uuid).out = << >>

\* C6 witness: chunk size 2, frame count 5: [0,1], [2,3], [4,4] were posted
\* and the fourth read of the source met the end of the sequence.
C6_Witness ==
    \E i \in DOMAIN sources :
        /\ CHUNK_SIZE = 2
        /\ remoteBatch = CHUNK_SIZE
        /\ sources[i].start = 0
        /\ sources[i].frameCount = 5
        /\ RangesOf(sources[i].uuid) = << <<0, 1>>, <<2, 3>>, <<4, 4>> >>
        /\ sources[i].state = "closed"
        /\ sources[i].reads = 4

\* C7: a source has at most one fetch outstanding.
C7_SingleFlight ==
    \A i \in DOMAIN sources : Len(sources[i].inflight) <= 1

\* C7 witness: reads are parked on a source (more demand than chunks) while
\* its one fetch is outstanding, after earlier fetches were answered.
C7_Witness ==
    \E i \in DOMAIN sources :
        /\ Len(sources[i].readRequests) >= 2
        /\ Len(sources[i].inflight) = 1
        /\ sources[i].issued >= 2

\* C8: a source never buffers more than HIGH_WATER_MARK chunks.
C8_BoundedLookAhead ==
    \A i \in DOMAIN sources : Len(sources[i].queue) <= HIGH_WATER_MARK

\* C8 witness: a source with HIGH_WATER_MARK chunks buffered, frames left to
\* fetch and no fetch outstanding.
C8_Witness ==
    \E i \in DOMAIN sources :
        /\ Len(sources[i].queue) = HIGH_WATER_MARK
        /\ sources[i].frameNumber < sources[i].frameCount
        /\ sources[i].inflight = << >>
        /\ ~sources[i].cancelled

\* C9 as claimed: a source has issued at most as many fetches as reads were
\* asked of it.
C9_FetchOnlyOnDemand ==
    \A i \in DOMAIN sources : sources[i].issued <= sources[i].reads

\* C9 amended: a source has issued at most HIGH_WATER_MARK more fetches than
\* reads were asked of it (it fetches ahead to fill its look-ahead buffer).
C9_FetchWithinLookAhead ==
    \A i \in DOMAIN sources :
        sources[i].issued <= sources[i].reads + HIGH_WATER_MARK

\* C9 witness: a source that got one read and has issued HIGH_WATER_MARK + 1
\* fetches.
C9_Witness ==
    \E i \in DOMAIN sources :
        /\ sources[i].reads = 1
        /\ sources[i].issued = 1 + HIGH_WATER_MARK

SourceOf(u) ==
    IF \E i \in DOMAIN sources : sources[i].uuid = u
    THEN CHOOSE i \in DOMAIN sources : sources[i].uuid = u
    ELSE 0

\* the reads asked so far of the source made for session id u
ReadsOf(u) == IF SourceOf(u) = 0 THEN 0 ELSE sources[SourceOf(u)].reads

\* the source made for session id u has closed
ClosedOf(u) == SourceOf(u) # 0 /\ sources[SourceOf(u)].state = "closed"

C12_NoRetryAfterFailure ==
    [][\A i \in DOMAIN sources :
          ((\E k \in DOMAIN sources[i].inflight : FetchFail(i, k))
              \/ sources[i].state = "errored")
              => /\ sources'[i].issued = sources[i].issued
                 /\ sources'[i].inflight = << >>
                 /\ sources'[i].frameNumber = sources[i].frameNumber
                 /\ sources'[i].state = "errored"
                 /\ RangesOf(sources[i].uuid)' = RangesOf(sources[i].uuid)]_vars

\* C12 witness: the third fetch of a live source failed after two had
\* succeeded, one chunk was posted, and a requestFrameChunk accepted after the
\* failure (before it, the read would have got the second chunk) got nothing.
C12_Witness ==
    \E i \in DOMAIN sources :
        /\ sources[i].state = "errored"
        /\ ~sources[i].cancelled
        /\ sources[i].issued = 3
        /\ sources[i].reads = 2
        /\ Len(RangesOf(sources[i].uuid)) = 1
        /\ sources[i].frameNumber < sources[i].frameCount

\* C13: every message with an unrecognized method tag makes onmessage throw,
\* and changes nothing else: no message is posted, no source is touched (no
\* read, no fetch), and stream and streamId stay as they were.
C13_UnknownMethodThrows ==
    [][unknown' # unknown
          => /\ thrown' = thrown + 1
             /\ UNCHANGED <<sources, stream, streamId, posted>>]_vars

\* C13 witness: onmessage threw on a message that arrived while the active
\* source had a fetch outstanding and a read parked.
C13_Witness ==
    /\ thrown = 1
    /\ unknown = 1
    /\ stream # 0
    /\ sources[stream].inflight # << >>
    /\ sources[stream].readRequests # << >>

(* --------------------------- label normalization ----------------------- *)

\* the processSample and sourceSample messages posted
SampleMessages ==
    SelectSeq(posted, LAMBDA m : m.method \in {"processSample", "sourceSample"})

\* out carries the _id of in as its id, and no _id
IdRewritten(in, out) ==
    in._id # Absent => out.id = in._id /\ out._id = Absent

\* the rewrite C14 asks of one field: on every element of the list of a list
\* kind, on the label itself for a single kind
FieldRewritten(in, out) ==
    /\ in._cls \in LABELS \cap LABEL_LISTS
          => /\ Len(out.list) = Len(in.list)
             /\ \A k \in DOMAIN in.list : IdRewritten(in.list[k], out.list[k])
    /\ in._cls \in LABELS \ LABEL_LISTS => IdRewritten(in, out)

\* C14: every sample posted by processSample or for requestSourceSample has
\* the id its input had as _id and no _id key, and so has every element of a
\* list-kind label's list and every single-kind label, in the sample's field
\* and in the field of each per-frame record.
C14_IdRewrite ==
    \A j \in DOMAIN SampleMessages :
       LET out == SampleMessages[j].sample
       IN  /\ IdRewritten(remoteSample, out)
           /\ FieldRewritten(remoteSample.field, out.field)
           /\ Len(out.frames) = Len(remoteSample.frames)
           /\ \A k \in DOMAIN remoteSample.frames :
                 FieldRewritten(remoteSample.frames[k].field, out.frames[k].field)

\* C14 witness: the sample fetched for requestSourceSample carried _id "x" and
\* a Detections label whose two elements carried _id "x" as well, and it was
\* posted.
C14_Witness ==
    /\ remoteSample._id = "x"
    /\ remoteSample.field._cls = "Detections"
    /\ Len(remoteSample.field.list) = MaxList
    /\ \A k \in DOMAIN remoteSample.field.list : remoteSample.field.list[k]._id = "x"
    /\ Len(SampleMessages) = 1
    /\ SampleMessages[1].method = "sourceSample"
    /\ SampleMessages[1].sample.field.list[MaxList].id = "x"

\* the masks handleLabels hands to deserialize, in the order it meets them
TextMasks(label) ==
    IF label._cls \in {"Detection", "Segmentation"}
    THEN IF label.mask.form = "text" THEN <<label.mask>> ELSE << >>
    ELSE IF label._cls = "Detections"
    THEN LET l == SelectSeq(label.list, LAMBDA e : e.mask.form = "text")
         IN  [k \in DOMAIN l |-> l[k].mask]
    ELSE << >>

RECURSIVE FrameTextMasks(_)
FrameTextMasks(frames) ==
    IF frames = << >> THEN << >>
    ELSE TextMasks(Head(frames).field) \o FrameTextMasks(Tail(frames))

\* an object of the sample carries the _id key
HasInternalId(sample) ==
    \/ sample._id # Absent
    \/ sample.field._id # Absent
    \/ \E k \in DOMAIN sample.field.list : sample.field.list[k]._id # Absent
    \/ \E j \in DOMAIN sample.frames : sample.frames[j].field._id # Absent

\* a mask of the sample is text that handleLabels would decode
HasTextMask(sample) ==
    TextMasks(sample.field) \o FrameTextMasks(sample.frames) # << >>

\* C15: a sample without any _id key and without any text mask is posted as
\* it came, with no buffers: the same keys, the same values.
C15_NoOpWithoutInternalId ==
    \A j \in DOMAIN SampleMessages :
       (~HasInternalId(remoteSample) /\ ~HasTextMask(remoteSample))
          => /\ SampleMessages[j].buffers = << >>
             /\ SampleMessages[j].sample = remoteSample

\* the buffers of a sequence of masks
Keys(masks) == [k \in DOMAIN masks |-> masks[k].key]

\* the label's decodable masks are native in out
MasksNative(in, out) ==
    /\ in._cls \in {"Detection", "Segmentation"} /\ in.mask.form = "text"
          => out.mask.form = "native" /\ out.mask.key = in.mask.key
    /\ in._cls = "Detections"
          => \A k \in DOMAIN in.list :
                in.list[k].mask.form = "text"
                   => /\ out.list[k].mask.form = "native"
                      /\ out.list[k].mask.key = in.list[k].mask.key

\* C16: the buffers of every processSample and sourceSample message are those
\* of the masks that arrived as text in the sample's Detection, Segmentation
\* or Detections label and then in those of its frames, in that order, one
\* each and none for a mask that arrived native; the buffers of a frameChunk
\* message are those of the text masks of the chunk's frames, in order; and in
\* the posted message each of these masks is native.
C16_BuffersOfTextMasks ==
    \A j \in DOMAIN posted :
       LET m == posted[j]
       IN  /\ m.method \in {"processSample", "sourceSample"}
              => /\ m.buffers = Keys(TextMasks(remoteSample.field)
                                     \o FrameTextMasks(remoteSample.frames))
                 /\ MasksNative(remoteSample.field, m.sample.field)
                 /\ \A k \in DOMAIN remoteSample.frames :
                       MasksNative(remoteSample.frames[k].field, m.sample.frames[k].field)
           /\ m.method = "frameChunk"
              => LET in == RemoteFrames(m.range[1], m.range[2])
                 IN  /\ m.buffers = Keys(FrameTextMasks(in))
                     /\ Len(m.frames) = Len(in)
                     /\ \A k \in DOMAIN in : MasksNative(in[k].field, m.frames[k].field)

\* C16 witness: a processSample message with three buffers, of the sample's
\* own text mask and of the text masks of its two frames, next to a frameChunk
\* message that holds both frames and their two buffers.
C16_Witness ==
    /\ \E j \in DOMAIN posted :
          /\ posted[j].method = "processSample"
          /\ posted[j].buffers = <<1, MaxList + 1, MaxList + 2>>
    /\ \E j \in DOMAIN posted :
          /\ posted[j].method = "frameChunk"
          /\ posted[j].range = <<0, 1>>
          /\ posted[j].buffers = <<MaxList + 1, MaxList + 2>>

\* deserialize rejects a mask handleSample hands to it
Undecodable(sample) ==
    \E k \in DOMAIN (TextMasks(sample.field) \o FrameTextMasks(sample.frames)) :
       ~(TextMasks(sample.field) \o FrameTextMasks(sample.frames))[k].ok

\* C17: a processSample message whose sample holds a mask deserialize rejects
\* makes onmessage throw: nothing is posted for it, and sources, stream and
\* streamId stay as they were.
C17_DecodeFailurePostsNothing ==
    [][(nSamples' # nSamples /\ Undecodable(remoteSample))
          => /\ posted' = posted
             /\ thrown' = thrown + 1
             /\ UNCHANGED <<sources, stream, streamId>>]_vars

\* C17 witness: with a stream active and its fetch outstanding, a
\* processSample message came whose second frame holds the mask deserialize
\* rejects, after a first frame with a mask it accepts.
C17_Witness ==
    /\ nSamples = 1
    /\ thrown = 1
    /\ Len(remoteSample.frames) = 2
    /\ remoteSample.frames[1].field.mask.form = "text"
    /\ remoteSample.frames[1].field.mask.ok
    /\ ~remoteSample.frames[2].field.mask.ok
    /\ stream # 0
    /\ sources[stream].inflight # << >>
    /\ SampleMessages = << >>

\* out exposes the former _id of in as its id, whatever in carried
ExposesId(in, out) ==
    /\ out._id = Absent
    /\ in._id # Absent => out.id = in._id

\* C18 as stated: after normalization every label object of a recognized
\* kind, the container of a list kind included, has no _id key and has its
\* former _id as id.
C18_EveryLabelExposesId ==
    \A j \in DOMAIN SampleMessages :
       LET out == SampleMessages[j].sample
       IN  /\ remoteSample.field._cls \in LABELS
                 => /\ ExposesId(remoteSample.field, out.field)
                    /\ \A k \in DOMAIN remoteSample.field.list :
                          ExposesId(remoteSample.field.list[k], out.field.list[k])
           /\ \A k \in DOMAIN remoteSample.frames :
                 remoteSample.frames[k].field._cls \in LABELS
                    => ExposesId(remoteSample.frames[k].field, out.frames[k].field)

\* C18, amended: after normalization every single-kind label and every element
\* of a list-kind label's list, in the sample and in its per-frame records,
\* has no _id key and has its former _id as id; the container of a list kind
\* is left as it came.
C18_LabelsExposeId ==
    \A j \in DOMAIN SampleMessages :
       LET out == SampleMessages[j].sample
       IN  /\ remoteSample.field._cls \in LABELS \ LABEL_LISTS
                 => ExposesId(remoteSample.field, out.field)
           /\ remoteSample.field._cls \in LABELS \cap LABEL_LISTS
                 => /\ \A k \in DOMAIN remoteSample.field.list :
                          ExposesId(remoteSample.field.list[k], out.field.list[k])
                    /\ out.field._id = remoteSample.field._id
                    /\ out.field.id = remoteSample.field.id
           /\ \A k \in DOMAIN remoteSample.frames :
                 remoteSample.frames[k].field._cls \in LABELS
                    => ExposesId(remoteSample.frames[k].field, out.frames[k].field)

\* C18 witness: a posted sample whose Detections container carried _id "x" and
\* still does, while its first element carries it as id.
C18_Witness ==
    /\ SampleMessages # << >>
    /\ remoteSample.field._cls = "Detections"
    /\ remoteSample.field._id = "x"
    /\ remoteSample.field.list # << >>
    /\ remoteSample.field.list[1]._id = "x"
    /\ SampleMessages[1].sample.field._id = "x"
    /\ SampleMessages[1].sample.field.list[1].id = "x"

(* ------------------------- cancelled and stalled ----------------------- *)

\* C19: the response to a fetch of a cancelled source changes nothing of the
\* sequence: its chunk is neither queued nor handed to a parked read (so
\* nothing is posted), and the source's cursor stays where it was.
C19_LateResponseDisregarded ==
    [][\A i \in DOMAIN sources :
          (sources[i].cancelled
             /\ \E k \in DOMAIN sources[i].inflight :
                   \E e \in RemoteEnds(sources[i].inflight[k], CHUNK_SIZE,
                                       sources[i].frameCount) :
                      FetchResolve(i, k, e))
             => /\ sources'[i].queue = sources[i].queue
                /\ sources'[i].readRequests = sources[i].readRequests
                /\ sources'[i].frameNumber = sources[i].frameNumber
                /\ posted' = posted]_vars

\* this step is the settling of a fetch of source i
Settles(i) ==
    \/ \E k \in DOMAIN sources[i].inflight :
          \E e \in RemoteEnds(sources[i].inflight[k], CHUNK_SIZE, sources[i].frameCount) :
             FetchResolve(i, k, e)
    \/ \E k \in DOMAIN sources[i].inflight : FetchFail(i, k)

C21_NothingPostedAtEnd ==
    /\ [](\A i \in DOMAIN sources : \A k \in DOMAIN sources[i].inflight :
             sources[i].inflight[k] < sources[i].frameCount)
    /\ [][\A i \in DOMAIN sources :
             sources[i].frameNumber >= sources[i].frameCount
                => RangesOf(sources[i].uuid)' = RangesOf(sources[i].uuid)]_vars

\* C21, amended: no fetch is issued for a frame at or past frameCount; from
\* the moment the cursor of a source is on frameCount it issues no fetch, its
\* cursor stays, and the only frameChunk messages still posted for its
\* session are chunks taken out of its buffer, none once the stream is closed;
\* a source made with frameNumber >= frameCount issues no fetch and has no
\* frameChunk posted at all.
C21_NoFetchPastEnd ==
    /\ [](\A i \in DOMAIN sources :
             /\ \A k \in DOMAIN sources[i].inflight :
                   sources[i].inflight[k] < sources[i].frameCount
             /\ sources[i].start >= sources[i].frameCount
                   => /\ sources[i].issued = 0
                      /\ sources[i].state = "closed"
                      /\ RangesOf(sources[i].uuid) = << >>)
    /\ [][\A i \in DOMAIN sources :
             sources[i].frameNumber >= sources[i].frameCount
                => /\ sources'[i].issued = sources[i].issued
                   /\ sources'[i].frameNumber = sources[i].frameNumber
                   /\ Len(RangesOf(sources[i].uuid)') - Len(RangesOf(sources[i].uuid))
                        = Len(sources[i].queue) - Len(sources'[i].queue)
                   /\ sources[i].state = "closed"
                         => RangesOf(sources[i].uuid)' = RangesOf(sources[i].uuid)]_vars

\* C21 witness: a session started on its frameCount was asked for a chunk and
\* got none, and a later session that delivered its only chunk and closed was
\* asked for another and got none.
C21_Witness ==
    /\ Len(sources) = 2
    /\ sources[1].start >= sources[1].frameCount
    /\ sources[1].reads = 2
    /\ sources[1].issued = 0
    /\ RangesOf(sources[1].uuid) = << >>
    /\ sources[2].start < sources[2].frameCount
    /\ sources[2].state = "closed"
    /\ sources[2].reads = 2
    /\ Len(RangesOf(sources[2].uuid)) = 1

(* ------------------------------- termination --------------------------- *)

\* the frames from the first cursor of source s to its end
FramesLeft(s) == IF s.start < s.frameCount THEN s.frameCount - s.start ELSE 0

\* C22 as stated, the bound: a source issues at most
\* ceil((frameCount - startFrame) / CHUNK_SIZE) fetches.
C22_FetchBound ==
    \A i \in DOMAIN sources :
       sources[i].issued <= NChunks(FramesLeft(sources[i]), CHUNK_SIZE)

\* C22, amended: with a remote that answers every fetch and a host that keeps
\* asking, every session that is not superseded reaches the closed state;
\* the source has issued at most one fetch per frame from its first cursor to
\* the end, and at most ceil((frameCount - startFrame) / CHUNK_SIZE) when the
\* remote returns every frame asked for.
C22_Termination ==
    /\ \A u \in UUIDS : (streamId = u) ~> ClosedOf(u)
    /\ [](\A i \in DOMAIN sources :
             /\ sources[i].issued <= FramesLeft(sources[i])
             /\ remoteBatch >= CHUNK_SIZE
                   => sources[i].issued <= NChunks(FramesLeft(sources[i]), CHUNK_SIZE))

\* C22 witness: a remote that returns one frame per response, frames 0 to 4:
\* the source closed after five fetches, each chunk posted.
C22_Witness ==
    /\ stream # 0
    /\ remoteBatch = 1
    /\ sources[stream].start = 0
    /\ sources[stream].frameCount = 5
    /\ sources[stream].state = "closed"
    /\ sources[stream].issued = 5
    /\ Len(RangesOf(streamId)) = 5

(* --------------------------- one chunk per read ------------------------ *)

\* C23: the frameChunk messages posted with a session id are at most the reads
\* made for it that are no longer waiting, and the reads are the one of its
\* setStream plus one per requestFrameChunk accepted while it was the active
\* session id; a step posts at most one message, and a frameChunk of a session
\* is posted only by a step that makes a read for it or settles a waiting one.
C23_OneChunkPerRead ==
    /\ [](/\ \A i \in DOMAIN sources :
                /\ sources[i].reads >= 1
                /\ Len(RangesOf(sources[i].uuid)) + Len(sources[i].readRequests)
                      <= sources[i].reads
          /\ SumReads(sources) <= Len(sources) + nReq)
    /\ [][/\ Len(posted') <= Len(posted) + 1
          /\ \A i \in DOMAIN sources :
                /\ sources'[i].reads # sources[i].reads
                      => /\ sources'[i].reads = sources[i].reads + 1
                         /\ nReq' = nReq + 1
                         /\ streamId = sources[i].uuid
                         /\ i = stream
                /\ RangesOf(sources[i].uuid)' # RangesOf(sources[i].uuid)
                      => /\ Len(RangesOf(sources[i].uuid)')
                               = Len(RangesOf(sources[i].uuid)) + 1
                         /\ \/ /\ sources'[i].reads = sources[i].reads + 1
                               /\ sources'[i].readRequests = sources[i].readRequests
                            \/ /\ sources'[i].reads = sources[i].reads
                               /\ sources[i].readRequests # << >>
                               /\ Len(sources'[i].readRequests)
                                     < Len(sources[i].readRequests)]_vars

\* C23 witness: a session answered its setStream and both requests it
\* accepted, three frameChunk messages for three reads, while a third request
\* led to no read.
C23_Witness ==
    /\ \E u \in UUIDS : ReadsOf(u) = 3 /\ Len(RangesOf(u)) = 3
    /\ nReq = 3
    /\ Ignored = 1

(* ------------------------ failure of a look-ahead ---------------------- *)

\* C24: the failure of a fetch leaves the chunks its source had buffered in
\* the buffer, and a later read of that source is answered with the oldest of
\* them: a step that settles a fetch without a response changes no queue, and
\* a source with a failed fetch that has buffered chunks hands them out.
C24_BufferSurvivesFailure ==
    [][\A i \in DOMAIN sources :
          (/\ Len(sources'[i].inflight) < Len(sources[i].inflight)
           /\ sources'[i].frameNumber = sources[i].frameNumber
           /\ sources[i].readRequests = << >>)
             => sources'[i].queue = sources[i].queue]_vars

(* ------------------- a chunk whose labels do not decode ---------------- *)

\* the frames of one response of the remote
BatchOf == Min(CHUNK_SIZE, remoteBatch)

\* the range of the j-th chunk source s fetches from a remote that answers
\* every fetch
ChunkAt(s, j) ==
    <<s.start + (j - 1) * BatchOf, Min(s.start + j * BatchOf - 1, s.frameCount - 1)>>

\* deserialize rejects a mask of frame number m
BadFrame(m) ==
    /\ m + 1 \in DOMAIN remoteSample.frames
    /\ Undecodable(MkSample(NoIds, NullLabel, <<remoteSample.frames[m + 1]>>))

\* normalization of the chunk with range r fails
BadChunk(r) == \E m \in r[1]..r[2] : BadFrame(m)

\* the chunks source s has fetched, and those of them that left its buffer
FetchedOf(s) == s.issued - Len(s.inflight)
ConsumedOf(s) == FetchedOf(s) - Len(s.queue)

\* the ranges of the first k chunks of source s whose normalization succeeds
Decodable(s, k) ==
    SelectSeq([j \in 1..k |-> ChunkAt(s, j)], LAMBDA r : ~BadChunk(r))

\* C25: the frameChunk messages of a session are, in order, the chunks that
\* left its source's buffer and whose labels decode: a chunk whose
\* normalization fails is consumed and posts nothing, it is not delivered
\* again, the chunks after it are delivered to the reads that follow, and the
\* cursor is where the fetched chunks put it; the step that consumes such a
\* chunk posts nothing and leaves stream and session id alone.
C25_FailedChunkIsConsumed ==
    /\ [](\A i \in DOMAIN sources :
             /\ Len(sources[i].queue) <= FetchedOf(sources[i])
             /\ ConsumedOf(sources[i]) <= sources[i].reads
             /\ RangesOf(sources[i].uuid)
                   = Decodable(sources[i], ConsumedOf(sources[i]))
             /\ \A k \in DOMAIN sources[i].queue :
                   sources[i].queue[k].range
                      = ChunkAt(sources[i], ConsumedOf(sources[i]) + k)
             /\ sources[i].frameNumber
                   = IF FetchedOf(sources[i]) = 0 THEN sources[i].start
                     ELSE ChunkAt(sources[i], FetchedOf(sources[i]))[2] + 1)
    /\ [][\A i \in DOMAIN sources :
             (/\ ConsumedOf(sources[i])' = ConsumedOf(sources[i]) + 1
              /\ BadChunk(ChunkAt(sources[i], ConsumedOf(sources[i]) + 1)))
                => /\ posted' = posted
                   /\ stream' = stream
                   /\ streamId' = streamId
                   /\ sources'[i].cancelled = sources[i].cancelled]_vars

\* C25 witness: the second chunk of a session did not decode; the first and
\* the third were posted, the third to the request after the one that got
\* nothing.
C25_Witness ==
    /\ stream # 0
    /\ ConsumedOf(sources[stream]) = 3
    /\ BadChunk(ChunkAt(sources[stream], 2))
    /\ RangesOf(streamId) = <<ChunkAt(sources[stream], 1), ChunkAt(sources[stream], 3)>>
    /\ sources[stream].reads = 3

(* -------------------- samples next to the stream session --------------- *)

\* the step handles processSample, requestSourceSample or the settlement of a
\* requestSourceSample fetch
SampleStep == nSamples' # nSamples \/ nFetched' # nFetched \/ pending' # pending

\* C26: a step that handles processSample, requestSourceSample or the
\* response of a requestSourceSample fetch leaves the sources (cursor, buffer,
\* cancelled flag and all), the active stream and the session id as they were;
\* a setStream leaves the outstanding sample fetches as they were; and the
\* sourceSample message of a response carries the uuid of its request.
C26_SamplesAsideOfStream ==
    /\ [][SampleStep => UNCHANGED <<sources, stream, streamId>>]_vars
    /\ [][Len(sources') > Len(sources)
             => UNCHANGED <<pending, nSamples, nFetched, posted>>]_vars
    /\ [][(Len(pending') < Len(pending) /\ posted' # posted)
             => /\ Len(posted') = Len(posted) + 1
                /\ SubSeq(posted', 1, Len(posted)) = posted
                /\ posted'[Len(posted')].method = "sourceSample"
                /\ \E k \in DOMAIN pending :
                      /\ pending' = RemoveAt(pending, k)
                      /\ posted'[Len(posted')].uuid = pending[k]]_vars

\* C26 witness: a sample was requested under the id of the first session, a
\* second session superseded the first while the fetch was outstanding, and
\* the sourceSample message carries the id of the request.
C26_Witness ==
    /\ Len(sources) = 2
    /\ streamId = sources[2].uuid
    /\ sources[1].cancelled
    /\ pending = << >>
    /\ \E j \in DOMAIN posted :
          /\ posted[j].method = "sourceSample"
          /\ posted[j].uuid = sources[1].uuid

====
